---- MODULE Spec2Model ----
(***************************************************************************)
(* Microcredit Companies API (src/main.py): the list / create / stats      *)
(* handlers over the "company" collection of a document store, with the    *)
(* liveness and diagnostic endpoints.                                      *)
(*                                                                         *)
(* Values.  A JSON / BSON value is a record [t, n, s]:                     *)
(*   t = "null"  None                                                      *)
(*   t = "num"   the number n (whole numbers only, so float sums are exact)*)
(*   t = "str"   the string s, a sequence of one-character strings         *)
(*   t = "date"  a datetime, n its instant                                 *)
(*   t = "oid"   a store identifier (ObjectId), n its value                *)
(* A document, a request body and a serialized record are functions from   *)
(* field names to values; a field that is missing is not in the DOMAIN.    *)
(***************************************************************************)
EXTENDS Integers, Sequences, FiniteSets, TLC

\* ------------------------------------------------------------- bounds
\* How many successful creates a behaviour performs on top of the initial
\* collection.
MaxCreates == 2
\* How many requests may be in flight at once in the concurrent specification.
MaxWorkers == 2

\* ------------------------------------------------- program constants
DefaultLimit == 100
MinLimit == 1
MaxLimit == 500

\* ------------------------------------------------------------- values
Null == [t |-> "null", n |-> 0, s |-> <<>>]
Num(k) == [t |-> "num", n |-> k, s |-> <<>>]
Str(cs) == [t |-> "str", n |-> 0, s |-> cs]
Date(k) == [t |-> "date", n |-> k, s |-> <<>>]
Oid(k) == [t |-> "oid", n |-> k, s |-> <<>>]

Has(d, f) == f \in DOMAIN d

\* Python truthiness of a value: None, 0 and "" are falsy.
Truthy(v) ==
    CASE v.t = "null" -> FALSE
      [] v.t = "num" -> v.n # 0
      [] v.t = "str" -> v.s # <<>>
      [] OTHER -> TRUE

\* dict.get(f, default)
Get(d, f, default) == IF Has(d, f) THEN d[f] ELSE default

DigitChars == <<"0", "1", "2", "3", "4", "5", "6", "7", "8", "9">>

RECURSIVE Dec(_)
\* str(k) for a natural number k.
Dec(k) == IF k < 10 THEN <<DigitChars[k + 1]>>
          ELSE Dec(k \div 10) \o <<DigitChars[(k % 10) + 1]>>

IsDigitChar(c) == \E i \in 1..10 : DigitChars[i] = c
DigitVal(c) == (CHOOSE i \in 1..10 : DigitChars[i] = c) - 1

\* A string Python's int() and float() both parse: a non-empty run of digits.
IsDigits(cs) == cs # <<>> /\ \A i \in 1..Len(cs) : IsDigitChar(cs[i])

RECURSIVE ParseNat(_)
ParseNat(cs) == IF cs = <<>> THEN 0
                ELSE 10 * ParseNat(SubSeq(cs, 1, Len(cs) - 1)) + DigitVal(cs[Len(cs)])

\* str.lower() on the characters in use.
Lower(c) ==
    CASE c = "A" -> "a"
      [] c = "B" -> "b"
      [] c = "X" -> "x"
      [] c = "Y" -> "y"
      [] OTHER -> c


\* ---------------------------------------------- request validation
\* The fields of CompanyIn, in declaration order.
CompanyFields == {"name", "license_id", "country", "region", "portfolio_usd",
                  "active_borrowers", "par30", "avg_interest_rate", "status",
                  "rating"}

\* A value pydantic accepts for a float or int field: a number, or a string
\* that parses as one.
IsNumeric(v) == v.t = "num" \/ (v.t = "str" /\ IsDigits(v.s))
NumVal(v) == IF v.t = "num" THEN v.n ELSE ParseNat(v.s)

\* name: str = Field(...), country: str
RequiredStrOK(p, f) == Has(p, f) /\ p[f].t = "str"
\* Optional[str] = None
OptionalStrOK(p, f) == ~Has(p, f) \/ p[f].t \in {"str", "null"}
\* str = Field("active")
DefaultStrOK(p, f) == ~Has(p, f) \/ p[f].t = "str"
\* float / int = Field(0, ge=lo)
GeOK(p, f, lo) == ~Has(p, f) \/ (IsNumeric(p[f]) /\ NumVal(p[f]) >= lo)
\* float = Field(0, ge=lo, le=hi)
RangeOK(p, f, lo, hi) ==
    ~Has(p, f) \/ (IsNumeric(p[f]) /\ NumVal(p[f]) >= lo /\ NumVal(p[f]) <= hi)
\* Optional[float] = Field(None, ge=lo, le=hi)
OptionalRangeOK(p, f, lo, hi) ==
    ~Has(p, f) \/ p[f].t = "null"
    \/ (IsNumeric(p[f]) /\ NumVal(p[f]) >= lo /\ NumVal(p[f]) <= hi)

\* The fields of request body p that fail CompanyIn's constraints.
FieldErrors(p) ==
    {f \in CompanyFields :
        CASE f \in {"name", "country"} -> ~RequiredStrOK(p, f)
          [] f \in {"license_id", "region"} -> ~OptionalStrOK(p, f)
          [] f = "portfolio_usd" -> ~GeOK(p, f, 0)
          [] f = "active_borrowers" -> ~GeOK(p, f, 0)
          [] f = "par30" -> ~RangeOK(p, f, 0, 100)
          [] f = "avg_interest_rate" -> ~RangeOK(p, f, 0, 200)
          [] f = "status" -> ~DefaultStrOK(p, f)
          [] f = "rating" -> ~OptionalRangeOK(p, f, 0, 5)}

\* Mutant: the lower bounds ge=0 are not enforced.
ValidBodyNoLowerBound(p) ==
    FieldErrors(p) \subseteq {"portfolio_usd", "active_borrowers", "par30"}

\* The request body passes CompanyIn (else FastAPI answers 422).
ValidBody(p) == FieldErrors(p) = {}

\* The default a field of CompanyIn takes when the body omits it.
FieldDefault(f) ==
    CASE f \in {"license_id", "region", "rating"} -> Null
      [] f = "status" -> Str(<<"a", "c", "t", "i", "v", "e">>)
      [] OTHER -> Num(0)

\* Mutant: model_dump(exclude_unset=True), the defaults are not filled in.
ModelDumpUnsetExcluded(p) ==
    [f \in CompanyFields \cap DOMAIN p |->
        IF f \in {"portfolio_usd", "active_borrowers", "par30",
                  "avg_interest_rate", "rating"} /\ p[f].t = "str"
        THEN Num(NumVal(p[f]))
        ELSE p[f]]

\* payload.model_dump() of a valid body: every declared field, defaults
\* filled in, numeric strings coerced to numbers, undeclared fields dropped.
ModelDump(p) ==
    [f \in CompanyFields |->
        IF ~Has(p, f) THEN FieldDefault(f)
        ELSE IF f \in {"portfolio_usd", "active_borrowers", "par30",
                       "avg_interest_rate", "rating"} /\ p[f].t = "str"
             THEN Num(NumVal(p[f]))
             ELSE p[f]]

\* Mutant: le=500 is missing.
LimitOKNoUpper(limit) ==
    limit.t = "null" \/ (limit.t = "num" /\ limit.n >= MinLimit)

\* limit: int = Query(100, ge=1, le=500); Null is "parameter omitted".
LimitOK(limit) ==
    limit.t = "null" \/ (limit.t = "num" /\ limit.n >= MinLimit /\ limit.n <= MaxLimit)

EffectiveLimit(limit) == IF limit.t = "null" THEN DefaultLimit ELSE limit.n

\* ------------------------------------------------------ filter builder
\* {"$regex": q, "$options": "i"}
Regex(q) == [t |-> "regex", n |-> 0, s |-> q.s]

EmptyDict == [k \in {} |-> Null]

\* Mutant: the status constraint is never added to the filter.
BuildFilterNoStatus(q, country, status) ==
    (IF Truthy(q) THEN "name" :> Regex(q) ELSE EmptyDict)
    @@ (IF Truthy(country) THEN "country" :> country ELSE EmptyDict)

\* filter_dict of list_companies: a key for each parameter that is truthy.
BuildFilter(q, country, status) ==
    (IF Truthy(q) THEN "name" :> Regex(q) ELSE EmptyDict)
    @@ (IF Truthy(country) THEN "country" :> country ELSE EmptyDict)
    @@ (IF Truthy(status) THEN "status" :> status ELSE EmptyDict)

\* ------------------------------------------------------ document store
\* The store's unanchored, case-insensitive ("i") regular-expression search,
\* for patterns made of literal characters and "." (any one character).
RegexSearchCI(pattern, cs) ==
    \E i \in 0..(Len(cs) - Len(pattern)) :
        \A j \in 1..Len(pattern) :
            pattern[j] = "." \/ Lower(pattern[j]) = Lower(cs[i + j])

\* The store's match of one document against a filter: every key of the
\* filter is a field of the document that equals the given value, or, for a
\* regex, is a string the pattern is found in.
Matches(doc, flt) ==
    \A k \in DOMAIN flt :
        /\ Has(doc, k)
        /\ IF flt[k].t = "regex"
           THEN doc[k].t = "str" /\ RegexSearchCI(flt[k].s, doc[k].s)
           ELSE doc[k] = flt[k]

Take(seq, k) == SubSeq(seq, 1, IF k < Len(seq) THEN k ELSE Len(seq))

\* get_documents("company", filter_dict, limit): the matching documents in
\* the store's natural (insertion) order, at most limit of them.
GetDocuments(coll, flt, limit) ==
    Take(SelectSeq(coll, LAMBDA d : Matches(d, flt)), limit)

\* The identifier the store assigns to the next inserted document.
NewOid(coll) == Len(coll) + 1

\* The document create_document("company", data) stores: the data, the
\* store-assigned _id, and the creation instant.
NewDocument(coll, data) ==
    data @@ ("_id" :> Oid(NewOid(coll))) @@ ("created_at" :> Date(NewOid(coll)))

\* The collection after the insert.
InsertOne(coll, data) == Append(coll, NewDocument(coll, data))

\* ---------------------------------------------------------- serializer
\* str(ObjectId)
OidStr(k) == <<"o">> \o Dec(k)
\* datetime.isoformat()
IsoFormat(k) == <<"T">> \o Dec(k)

\* str(v) of an identifier value.
PyStr(v) ==
    CASE v.t = "oid" -> OidStr(v.n)
      [] v.t = "num" -> Dec(v.n)
      [] OTHER -> v.s

\* Mutant: the raw _id is kept beside id.
SerializeKeepRawId(doc) ==
    [k \in DOMAIN doc \cup {"id"} |->
        IF k = "id" THEN Str(PyStr(doc["_id"]))
        ELSE IF doc[k].t = "date" THEN Str(IsoFormat(doc[k].n))
        ELSE doc[k]]

\* serialize(doc): _id popped into id as a string, isoformat() on every
\* value that has it.
Serialize(doc) ==
    [k \in (DOMAIN doc \ {"_id"}) \cup {"id"} |->
        IF k = "id" THEN Str(PyStr(doc["_id"]))
        ELSE IF doc[k].t = "date" THEN Str(IsoFormat(doc[k].n))
        ELSE doc[k]]

SerializeAll(docs) == [i \in 1..Len(docs) |-> Serialize(docs[i])]

\* ---------------------------------------------------------- aggregator
\* x or 0
OrZero(v) == IF Truthy(v) THEN v ELSE Num(0)

\* float(x) / int(x) succeeds: x is a number or a string of digits (any other
\* string raises ValueError, a datetime or an identifier TypeError).
CoerceOK(v) == v.t = "num" \/ (v.t = "str" /\ IsDigits(v.s))
CoerceVal(v) == IF v.t = "num" THEN v.n ELSE ParseNat(v.s)

\* float(c.get(f, 0) or 0) raises for document c.
FieldRaises(c, f) == ~CoerceOK(OrZero(Get(c, f, Num(0))))
\* float(c.get(f, 0) or 0)
FieldValue(c, f) == CoerceVal(OrZero(Get(c, f, Num(0))))

RECURSIVE SumRange(_, _, _, _)
\* The sum of field f over companies[lo..hi], by halving the range.
SumRange(companies, f, lo, hi) ==
    IF lo > hi THEN 0
    ELSE IF lo = hi THEN FieldValue(companies[lo], f)
    ELSE LET mid == (lo + hi) \div 2
         IN  SumRange(companies, f, lo, mid) + SumRange(companies, f, mid + 1, hi)

\* sum(float(c.get(f, 0) or 0) for c in companies)
SumField(companies, f) == SumRange(companies, f, 1, Len(companies))

\* round(a / n, 0) for integers a and n > 0, a tie going to the even neighbour
\* (of the inputs the specifications reach, none produces a tie).
RoundDiv(a, n) ==
    LET lo == a \div n
        r == a % n
    IN  IF 2 * r < n THEN lo
        ELSE IF 2 * r > n THEN lo + 1
        ELSE IF lo % 2 = 0 THEN lo ELSE lo + 1

\* {c.get("country", "") for c in companies if c.get("country")}
Countries(companies) ==
    {Get(companies[i], "country", Str(<<>>)) :
        i \in {j \in 1..Len(companies) : Truthy(Get(companies[j], "country", Null))}}

ZeroStats == [total_companies |-> 0, total_portfolio_usd |-> 0, avg_par30 |-> 0,
              active_borrowers |-> 0, countries_count |-> 0]

\* One of the three conversions of company_stats raises on these documents.
StatsRaises(companies) ==
    \E i \in 1..Len(companies) :
        \E f \in {"portfolio_usd", "active_borrowers", "par30"} :
            FieldRaises(companies[i], f)

\* Mutant: countries_count counts the records that have a country, not the
\* distinct countries.
ComputeStatsCountAll(companies) ==
    [total_companies |-> Len(companies),
     total_portfolio_usd |-> 100 * SumField(companies, "portfolio_usd"),
     avg_par30 |-> IF companies = <<>> THEN 0
                   ELSE RoundDiv(100 * SumField(companies, "par30"), Len(companies)),
     active_borrowers |-> SumField(companies, "active_borrowers"),
     countries_count |->
        Cardinality({j \in 1..Len(companies) :
                        Truthy(Get(companies[j], "country", Null))})]

\* The body company_stats returns when no conversion raises.
\* total_portfolio_usd and avg_par30, rounded to 2 decimals, are given in
\* hundredths.
ComputeStats(companies) ==
    IF Len(companies) = 0 THEN ZeroStats
    ELSE [total_companies |-> Len(companies),
          total_portfolio_usd |-> 100 * SumField(companies, "portfolio_usd"),
          avg_par30 |-> RoundDiv(100 * SumField(companies, "par30"), Len(companies)),
          active_borrowers |-> SumField(companies, "active_borrowers"),
          countries_count |-> Cardinality(Countries(companies))]

\* --------------------------------------------------------------- state
VARIABLES
    db,        \* the module-level store handle: "none" (not configured) or "ok"
    store,     \* the "company" collection: its documents in insertion order
    last,      \* the last request handled and its response
    created,   \* history: the successful creates, [id, body], oldest first
    workers    \* the requests in flight (concurrent specification)

vars == <<db, store, last, created, workers>>

NoDiag == [database |-> "", connection_status |-> "", collections |-> <<>>,
           database_url |-> "", database_name |-> ""]

\* A request record with nothing filled in; reads and writes count the store
\* operations the handler performed.
Blank == [op |-> "", status |-> 0, q |-> Null, country |-> Null, statusf |-> Null,
          limit |-> Null, payload |-> EmptyDict, docs |-> <<>>, id |-> <<>>,
          stats |-> ZeroStats, diag |-> NoDiag, reads |-> 0, writes |-> 0]

IdleWorker == [pc |-> "idle", req |-> Blank, data |-> EmptyDict, snapshot |-> <<>>]

\* -------------------------------------------------------------- inputs
Active == Str(<<"a", "c", "t", "i", "v", "e">>)
Closed == Str(<<"c", "l", "o", "s", "e", "d">>)

BodyMinimal == ("name" :> Str(<<"a", "b">>)) @@ ("country" :> Str(<<"X">>))
BodyFull ==
    ("name" :> Str(<<"A", ".">>)) @@ ("license_id" :> Str(<<"L">>))
    @@ ("country" :> Str(<<"Y">>)) @@ ("region" :> Str(<<"R">>))
    @@ ("portfolio_usd" :> Num(200)) @@ ("active_borrowers" :> Num(3))
    @@ ("par30" :> Num(10)) @@ ("avg_interest_rate" :> Num(20))
    @@ ("status" :> Closed) @@ ("rating" :> Num(5))
BodyBlank ==
    ("name" :> Str(<<"b">>)) @@ ("country" :> Str(<<>>)) @@ ("status" :> Str(<<>>))
    @@ ("active_borrowers" :> Num(2)) @@ ("par30" :> Num(100))
    @@ ("license_id" :> Null)
BodyCoerced ==
    ("name" :> Str(<<"B", "a">>)) @@ ("country" :> Str(<<"x">>))
    @@ ("portfolio_usd" :> Str(<<"7">>)) @@ ("extra" :> Num(1))

ValidBodies == {BodyMinimal, BodyFull, BodyBlank, BodyCoerced}

InvalidBodies ==
    {"country" :> Str(<<"X">>),
     "name" :> Str(<<"a", "b">>),
     BodyMinimal @@ ("portfolio_usd" :> Num(-5)),
     BodyMinimal @@ ("active_borrowers" :> Num(-1)),
     BodyMinimal @@ ("par30" :> Num(101)),
     BodyMinimal @@ ("par30" :> Num(-1)),
     BodyMinimal @@ ("avg_interest_rate" :> Num(201)),
     BodyMinimal @@ ("rating" :> Num(6))}

\* The request bodies POST /api/companies is tried with.
Bodies == ValidBodies \cup InvalidBodies

\* The query parameters GET /api/companies is tried with; Null is "omitted".
QValues == {Null, Str(<<"a">>), Str(<<".">>)}
CountryValues == {Null, Str(<<>>), Str(<<"X">>)}
StatusValues == {Null, Str(<<>>), Closed}
LimitValues == {Null, Num(MinLimit - 1), Num(MinLimit), Num(MaxLimit), Num(MaxLimit + 1)}

\* The collection after k creates of BodyMinimal on an empty collection.
Seeded(k) ==
    [i \in 1..k |-> NewDocument([j \in 1..(i - 1) |-> EmptyDict], ModelDump(BodyMinimal))]

\* ---------------------------------------------------------------- Init
\* The handle is fixed when the module is imported.  A configured store holds
\* what earlier runs created: nothing, one record, or one record short of the
\* default limit.
Init ==
    /\ db \in {"none", "ok"}
    /\ store \in (IF db = "none" THEN {<<>>} ELSE {Seeded(0), Seeded(1), Seeded(DefaultLimit - 1)})
    /\ last = Blank
    /\ created = <<>>
    /\ workers = [w \in 1..MaxWorkers |-> IdleWorker]

\* ------------------------------------------------------------- actions
\* No request is being answered.
Idle == last.op = ""

\* The response is handed to the client; nothing of the program changes.
Respond ==
    /\ ~Idle
    /\ last' = Blank
    /\ UNCHANGED <<db, store, created, workers>>

\* GET /
ReadRoot ==
    /\ Idle
    /\ last' = [Blank EXCEPT !.op = "root", !.status = 200]
    /\ UNCHANGED <<db, store, created, workers>>

\* The response of GET /api/companies to a request on collection coll.
ListResponse(coll, q, country, status, limit) ==
    LET req == [Blank EXCEPT !.op = "list", !.q = q, !.country = country,
                             !.statusf = status, !.limit = limit]
    IN  IF ~LimitOK(limit) THEN [req EXCEPT !.status = 422]
        ELSE IF db = "none" THEN [req EXCEPT !.status = 500]
        ELSE [req EXCEPT !.status = 200, !.reads = 1,
                         !.docs = SerializeAll(GetDocuments(coll,
                                      BuildFilter(q, country, status),
                                      EffectiveLimit(limit)))]

\* GET /api/companies
ListCompanies(q, country, status, limit) ==
    /\ Idle
    /\ last' = ListResponse(store, q, country, status, limit)
    /\ UNCHANGED <<db, store, created, workers>>

\* POST /api/companies
CreateCompany(p) ==
    LET req == [Blank EXCEPT !.op = "create", !.payload = p]
    IN  /\ Idle
        /\ IF ~ValidBody(p)
           THEN /\ last' = [req EXCEPT !.status = 422]
                /\ UNCHANGED <<db, store, created, workers>>
           ELSE IF db = "none"
           THEN /\ last' = [req EXCEPT !.status = 500]
                /\ UNCHANGED <<db, store, created, workers>>
           ELSE /\ Len(created) < MaxCreates
                /\ store' = InsertOne(store, ModelDump(p))
                /\ last' = [req EXCEPT !.status = 201, !.writes = 1,
                                       !.id = OidStr(NewOid(store))]
                /\ created' = Append(created, [id |-> OidStr(NewOid(store)),
                                               body |-> p])
                /\ UNCHANGED <<db, workers>>

\* The response of GET /api/companies/stats computed on the documents read.
StatsResponse(companies) ==
    LET req == [Blank EXCEPT !.op = "stats", !.reads = 1]
    IN  IF Len(companies) > 0 /\ StatsRaises(companies)
        THEN [req EXCEPT !.status = 500]
        ELSE [req EXCEPT !.status = 200, !.stats = ComputeStats(companies)]

\* Mutant: the handle is not checked before the collection is read.
CompanyStatsNoCheck ==
    /\ Idle
    /\ last' = StatsResponse(store)
    /\ UNCHANGED <<db, store, created, workers>>

\* GET /api/companies/stats
CompanyStats ==
    /\ Idle
    /\ last' = IF db = "none" THEN [Blank EXCEPT !.op = "stats", !.status = 500]
               ELSE StatsResponse(store)
    /\ UNCHANGED <<db, store, created, workers>>

\* GET /test; urlSet and nameSet say whether DATABASE_URL and DATABASE_NAME are
\* set in the environment, listOK whether list_collection_names() returns.
TestDatabase(urlSet, nameSet, listOK) ==
    /\ Idle
    /\ last' =
        [Blank EXCEPT
            !.op = "test", !.status = 200,
            !.reads = IF db = "none" THEN 0 ELSE 1,
            !.diag =
                [database |-> IF db = "none" THEN "Available but not initialized"
                              ELSE IF listOK THEN "Connected & Working"
                              ELSE "Connected but Error",
                 connection_status |-> IF db = "none" THEN "Not Connected"
                                       ELSE "Connected",
                 collections |-> IF db = "none" \/ ~listOK \/ store = <<>>
                                 THEN <<>> ELSE <<"company">>,
                 database_url |-> IF urlSet THEN "Set" ELSE "Not Set",
                 database_name |-> IF nameSet THEN "Set" ELSE "Not Set"]]
    /\ UNCHANGED <<db, store, created, workers>>

Next ==
    \/ Respond
    \/ ReadRoot
    \/ \E q \in QValues, country \in CountryValues, status \in StatusValues,
          limit \in LimitValues : ListCompanies(q, country, status, limit)
    \/ \E p \in Bodies : CreateCompany(p)
    \/ CompanyStats
    \/ \E urlSet \in BOOLEAN, nameSet \in BOOLEAN, listOK \in BOOLEAN :
          TestDatabase(urlSet, nameSet, listOK)

Spec == Init /\ [][Next]_vars

\* ------------------------------------- a collection written by others
\* Documents other writers of the collection left in it (without their _id):
\* fields missing, null, non-numeric, a datetime, a field named id.
ForeignDocs ==
    {("name" :> Str(<<"a", "b">>)) @@ ("country" :> Str(<<"X">>)),
     ("name" :> Str(<<"b">>)) @@ ("country" :> Str(<<"Y">>))
        @@ ("portfolio_usd" :> Null) @@ ("active_borrowers" :> Null)
        @@ ("par30" :> Null) @@ ("updated_at" :> Date(7)),
     ("name" :> Str(<<"A", ".">>)) @@ ("country" :> Str(<<"X">>))
        @@ ("portfolio_usd" :> Str(<<"a", "b">>)) @@ ("active_borrowers" :> Num(4))
        @@ ("par30" :> Num(10)),
     ("name" :> Str(<<"B", "a">>)) @@ ("active_borrowers" :> Str(<<"7">>))
        @@ ("par30" :> Str(<<>>)) @@ ("id" :> Str(<<"z">>))}

\* The collections of one or two such documents, the store's identifiers added.
ForeignCollections ==
    {[i \in 1..Len(ds) |-> ds[i] @@ ("_id" :> Oid(i))] :
        ds \in [1..1 -> ForeignDocs] \cup [1..2 -> ForeignDocs]}

InitExt ==
    /\ db = "ok"
    /\ store \in ForeignCollections
    /\ last = Blank
    /\ created = <<>>
    /\ workers = [w \in 1..MaxWorkers |-> IdleWorker]

\* The sequential behaviours on a collection that other writers filled.
SpecExt == InitExt /\ [][Next]_vars

\* ------------------------------------------------- concurrent requests
\* Each worker thread handles one request at a time; the steps of a handler
\* that touch the store are separate actions, so requests interleave.
ConcBodies == {BodyMinimal, BodyFull, BodyMinimal @@ ("portfolio_usd" :> Num(-5))}
ConcLimits == {Num(MinLimit), Num(MinLimit - 1)}

SetWorker(w, rec) == workers' = [workers EXCEPT ![w] = rec]

\* list_companies up to the store call.
StartList(w, q, limit) ==
    LET req == [Blank EXCEPT !.op = "list", !.q = q, !.limit = limit]
    IN  /\ workers[w].pc = "idle"
        /\ SetWorker(w, IF ~LimitOK(limit)
                        THEN [IdleWorker EXCEPT !.pc = "done", !.req = [req EXCEPT !.status = 422]]
                        ELSE IF db = "none"
                        THEN [IdleWorker EXCEPT !.pc = "done", !.req = [req EXCEPT !.status = 500]]
                        ELSE [IdleWorker EXCEPT !.pc = "list_find", !.req = req])
        /\ UNCHANGED <<db, store, last, created>>

\* docs = get_documents("company", filter_dict, limit)
ListFind(w) ==
    /\ workers[w].pc = "list_find"
    /\ SetWorker(w, [workers[w] EXCEPT
            !.pc = "list_return",
            !.req.reads = 1,
            !.snapshot = GetDocuments(store,
                            BuildFilter(workers[w].req.q, Null, Null),
                            EffectiveLimit(workers[w].req.limit))])
    /\ UNCHANGED <<db, store, last, created>>

\* return [serialize(d) for d in docs]
ListReturn(w) ==
    /\ workers[w].pc = "list_return"
    /\ SetWorker(w, [workers[w] EXCEPT
            !.pc = "done", !.req.status = 200,
            !.req.docs = SerializeAll(workers[w].snapshot),
            !.snapshot = <<>>])
    /\ UNCHANGED <<db, store, last, created>>

\* create_company up to the store call.
StartCreate(w, p) ==
    LET req == [Blank EXCEPT !.op = "create", !.payload = p]
    IN  /\ workers[w].pc = "idle"
        /\ SetWorker(w, IF ~ValidBody(p)
                        THEN [IdleWorker EXCEPT !.pc = "done", !.req = [req EXCEPT !.status = 422]]
                        ELSE IF db = "none"
                        THEN [IdleWorker EXCEPT !.pc = "done", !.req = [req EXCEPT !.status = 500]]
                        ELSE [IdleWorker EXCEPT !.pc = "create_insert", !.req = req,
                                                !.data = ModelDump(p)])
        /\ UNCHANGED <<db, store, last, created>>

\* Mutant: the handler inserts the document twice.
CreateInsertTwice(w) ==
    /\ workers[w].pc = "create_insert"
    /\ Len(created) < MaxCreates
    /\ store' = InsertOne(InsertOne(store, workers[w].data), workers[w].data)
    /\ created' = Append(created, [id |-> OidStr(NewOid(store)),
                                   body |-> workers[w].req.payload])
    /\ SetWorker(w, [workers[w] EXCEPT
            !.pc = "create_return", !.req.writes = 1, !.req.id = OidStr(NewOid(store))])
    /\ UNCHANGED <<db, last>>

\* company_id = create_document("company", payload.model_dump())
CreateInsert(w) ==
    /\ workers[w].pc = "create_insert"
    /\ Len(created) < MaxCreates
    /\ store' = InsertOne(store, workers[w].data)
    /\ created' = Append(created, [id |-> OidStr(NewOid(store)),
                                   body |-> workers[w].req.payload])
    /\ SetWorker(w, [workers[w] EXCEPT
            !.pc = "create_return", !.req.writes = 1, !.req.id = OidStr(NewOid(store))])
    /\ UNCHANGED <<db, last>>

\* return {"id": company_id}
CreateReturn(w) ==
    /\ workers[w].pc = "create_return"
    /\ SetWorker(w, [workers[w] EXCEPT !.pc = "done", !.req.status = 201])
    /\ UNCHANGED <<db, store, last, created>>

\* company_stats up to the store call.
StartStats(w) ==
    /\ workers[w].pc = "idle"
    /\ SetWorker(w, IF db = "none"
                    THEN [IdleWorker EXCEPT !.pc = "done",
                            !.req = [Blank EXCEPT !.op = "stats", !.status = 500]]
                    ELSE [IdleWorker EXCEPT !.pc = "stats_find",
                            !.req = [Blank EXCEPT !.op = "stats"]])
    /\ UNCHANGED <<db, store, last, created>>

\* companies = list(db["company"].find({}))
StatsFind(w) ==
    /\ workers[w].pc = "stats_find"
    /\ SetWorker(w, [workers[w] EXCEPT !.pc = "stats_return", !.snapshot = store])
    /\ UNCHANGED <<db, store, last, created>>

\* The aggregation over the documents read, and the return.
StatsReturn(w) ==
    /\ workers[w].pc = "stats_return"
    /\ SetWorker(w, [IdleWorker EXCEPT !.pc = "done",
                                      !.req = StatsResponse(workers[w].snapshot)])
    /\ UNCHANGED <<db, store, last, created>>

\* The response is handed to the client and the worker is free again.
Finish(w) ==
    /\ workers[w].pc = "done"
    /\ SetWorker(w, IdleWorker)
    /\ UNCHANGED <<db, store, last, created>>

InitConc ==
    /\ db \in {"none", "ok"}
    /\ store = <<>>
    /\ last = Blank
    /\ created = <<>>
    /\ workers = [w \in 1..MaxWorkers |-> IdleWorker]

NextConc ==
    \E w \in 1..MaxWorkers :
        \/ \E limit \in ConcLimits : StartList(w, Null, limit)
        \/ ListFind(w)
        \/ ListReturn(w)
        \/ \E p \in ConcBodies : StartCreate(w, p)
        \/ CreateInsert(w)
        \/ CreateReturn(w)
        \/ StartStats(w)
        \/ StatsFind(w)
        \/ StatsReturn(w)
        \/ Finish(w)

SpecConc == InitConc /\ [][NextConc]_vars

\* ============================================================== claims
\* The string form of a stored document's identifier.
IdOf(d) == Str(PyStr(d["_id"]))

\* The defaults of the data model (section 3 of the specification).
SpecDefault(f) ==
    CASE f \in {"portfolio_usd", "active_borrowers", "par30", "avg_interest_rate"} -> Num(0)
      [] f = "status" -> Active
      [] OTHER -> Null

\* The body gives its numeric fields as numbers, as the data model types them.
WellTyped(p) ==
    \A f \in DOMAIN p \cap {"portfolio_usd", "active_borrowers", "par30",
                            "avg_interest_rate", "rating"} : p[f].t # "str"

\* Record rec carries the id create returned and the fields of its input,
\* omitted fields at their defaults.
EchoesInput(rec, c) ==
    /\ rec["id"] = Str(c.id)
    /\ \A f \in CompanyFields :
          Has(rec, f) /\ rec[f] = (IF Has(c.body, f) THEN c.body[f] ELSE SpecDefault(f))

\* The response on hand answers a list request without q, country, status
\* or limit.
UnfilteredDefaultList ==
    /\ last.op = "list" /\ last.status = 200
    /\ last.q = Null /\ last.country = Null /\ last.statusf = Null /\ last.limit = Null

\* Every create of a well-typed body shows exactly once in the list.
CreatedAllListed ==
    \A k \in 1..Len(created) :
        WellTyped(created[k].body) =>
            /\ created[k].id # <<>>
            /\ Cardinality({i \in 1..Len(last.docs) :
                               EchoesInput(last.docs[i], created[k])}) = 1

\* C1 as stated: whatever the collection held before, a list without filters
\* after a successful create includes exactly one record with the input's
\* fields and the id create returned.
C1_CreateThenListAnyStore == UnfilteredDefaultList => CreatedAllListed

\* C1, amended: the same, provided the collection holds at most DefaultLimit
\* (100) records when list is called.
C1_CreateThenListWithinLimit ==
    (UnfilteredDefaultList /\ Len(store) <= DefaultLimit) => CreatedAllListed

C1_Witness ==
    /\ UnfilteredDefaultList
    /\ Len(store) = DefaultLimit
    /\ Len(created) >= 1
    /\ WellTyped(created[Len(created)].body)

InRange(l) == l.t = "num" /\ l.n >= 1 /\ l.n <= 500

\* C2: a list with limit in [1,500] returns at most limit records; a limit
\* outside [1,500] is rejected (422) without a store read; an omitted limit
\* is 100.
C2_LimitCap ==
    last.op = "list" =>
        /\ (InRange(last.limit) /\ last.status = 200) => Len(last.docs) <= last.limit.n
        /\ (InRange(last.limit) \/ last.limit = Null) => last.status \in {200, 500}
        /\ (last.limit.t = "num" /\ ~InRange(last.limit)) =>
              (last.status = 422 /\ last.reads = 0 /\ last.docs = <<>>)
        /\ (last.limit = Null /\ last.status = 200) =>
              /\ Len(last.docs) <= 100
              /\ (UnfilteredDefaultList /\ Len(store) >= 100) => Len(last.docs) = 100

C2_Witness ==
    /\ UnfilteredDefaultList
    /\ Len(store) > 100
    /\ Len(last.docs) = 100

\* cs contains sub as a literal substring, compared case-insensitively.
ContainsCI(cs, sub) ==
    \E i \in 0..(Len(cs) - Len(sub)) :
        \A j \in 1..Len(sub) : Lower(cs[i + j]) = Lower(sub[j])

\* C3 as stated: every record list returns for a search string q has a name
\* that contains q as a literal substring, compared case-insensitively.
C3_LiteralSubstring ==
    (last.op = "list" /\ last.status = 200 /\ last.q.t = "str") =>
        \A i \in 1..Len(last.docs) :
            /\ Has(last.docs[i], "name")
            /\ last.docs[i]["name"].t = "str"
            /\ ContainsCI(last.docs[i]["name"].s, last.q.s)

\* C4 as stated: for every country (status) value passed, every returned
\* record has exactly that country (status).
C4_ExactMatchAnyValue ==
    (last.op = "list" /\ last.status = 200) =>
        \A i \in 1..Len(last.docs) :
            /\ last.country.t = "str" => last.docs[i]["country"] = last.country
            /\ last.statusf.t = "str" => last.docs[i]["status"] = last.statusf

\* A parameter that is given and not the empty string.
Given(v) == v.t = "str" /\ v.s # <<>>

SatisfiesGiven(d, country, status) ==
    /\ Given(country) => (Has(d, "country") /\ d["country"] = country)
    /\ Given(status) => (Has(d, "status") /\ d["status"] = status)

Min(a, b) == IF a < b THEN a ELSE b

\* C4, amended: for every non-empty country (status) value passed, every
\* returned record has exactly that country (status); a parameter that is
\* absent or the empty string imposes no constraint: the records returned are
\* records of the collection, and without q they are as many as satisfy the
\* non-empty constraints, up to the limit.
C4_ExactMatchNonEmpty ==
    (last.op = "list" /\ last.status = 200) =>
        /\ \A i \in 1..Len(last.docs) :
              /\ Given(last.country) => last.docs[i]["country"] = last.country
              /\ Given(last.statusf) => last.docs[i]["status"] = last.statusf
              /\ \E j \in 1..Len(store) : last.docs[i]["id"] = IdOf(store[j])
        /\ ~Given(last.q) =>
              Len(last.docs) =
                  Min(IF last.limit = Null THEN 100 ELSE last.limit.n,
                      Cardinality({j \in 1..Len(store) :
                          SatisfiesGiven(store[j], last.country, last.statusf)}))

C4_Witness ==
    /\ last.op = "list" /\ last.status = 200
    /\ last.country = Str(<<"X">>) /\ last.statusf = Str(<<>>)
    /\ Len(last.docs) >= 1
    /\ Len(last.docs) < Len(store)
    /\ Len(last.docs) < (IF last.limit = Null THEN 100 ELSE last.limit.n)

RECURSIVE StoredTotal(_, _)
\* The sum of the stored numbers of field f over the first k records.
StoredTotal(f, k) == IF k = 0 THEN 0 ELSE StoredTotal(f, k - 1) + store[k][f].n

\* C5: after creates alone, stats returns the number of records, the sum of
\* their active_borrowers and the number of distinct non-empty countries; on
\* an empty collection all five outputs are 0.
C5_StatsTotals ==
    (last.op = "stats" /\ db = "ok") =>
        /\ last.status = 200
        /\ last.stats.total_companies = Len(store)
        /\ last.stats.active_borrowers = StoredTotal("active_borrowers", Len(store))
        /\ last.stats.countries_count =
              Cardinality({store[j]["country"].s :
                              j \in {i \in 1..Len(store) : store[i]["country"].s # <<>>}})
        /\ store = <<>> =>
              /\ last.stats.total_companies = 0
              /\ last.stats.total_portfolio_usd = 0
              /\ last.stats.avg_par30 = 0
              /\ last.stats.active_borrowers = 0
              /\ last.stats.countries_count = 0

C5_Witness ==
    /\ last.op = "stats" /\ last.status = 200
    /\ last.stats.total_companies >= 2
    /\ last.stats.countries_count = 1
    /\ last.stats.active_borrowers > 0
    /\ \E i \in 1..Len(store) : store[i]["country"].s = <<>>

\* The number a field counts as when missing, null or non-numeric values
\* count as 0.
CountsAs(d, f) ==
    IF ~Has(d, f) THEN 0
    ELSE IF d[f].t = "num" THEN d[f].n
    ELSE IF d[f].t = "str" /\ IsDigits(d[f].s) THEN ParseNat(d[f].s)
    ELSE 0

RECURSIVE LenientTotal(_, _)
LenientTotal(f, k) == IF k = 0 THEN 0 ELSE LenientTotal(f, k - 1) + CountsAs(store[k], f)

\* C6 as stated: whatever the records hold in portfolio_usd, par30 and
\* active_borrowers (missing, null, non-numeric), stats succeeds and counts
\* the field as 0.
C6_StatsNeverFails ==
    last.op = "stats" =>
        /\ last.status = 200
        /\ last.stats.active_borrowers = LenientTotal("active_borrowers", Len(store))
        /\ last.stats.total_portfolio_usd = 100 * LenientTotal("portfolio_usd", Len(store))

\* The body violates a constraint of the data model.
ViolatesDataModel(p) ==
    \/ ~Has(p, "name")
    \/ ~Has(p, "country")
    \/ (Has(p, "portfolio_usd") /\ p["portfolio_usd"].t = "num" /\ p["portfolio_usd"].n < 0)
    \/ (Has(p, "active_borrowers") /\ p["active_borrowers"].t = "num"
            /\ p["active_borrowers"].n < 0)
    \/ (Has(p, "par30") /\ p["par30"].t = "num"
            /\ (p["par30"].n < 0 \/ p["par30"].n > 100))
    \/ (Has(p, "avg_interest_rate") /\ p["avg_interest_rate"].t = "num"
            /\ (p["avg_interest_rate"].n < 0 \/ p["avg_interest_rate"].n > 200))
    \/ (Has(p, "rating") /\ p["rating"].t = "num"
            /\ (p["rating"].n < 0 \/ p["rating"].n > 5))

\* C7: a create whose body violates a constraint of the data model answers
\* 422 and leaves the collection as it was.
C7_InvalidCreatePersistsNothing ==
    [][(last.op = "" /\ last'.op = "create" /\ ViolatesDataModel(last'.payload)) =>
          (last'.status = 422 /\ last'.writes = 0 /\ store' = store
           /\ created' = created)]_vars

C7_Witness ==
    /\ last.op = "create" /\ last.status = 422
    /\ Has(last.payload, "portfolio_usd") /\ last.payload["portfolio_usd"] = Num(-5)
    /\ Len(created) >= 1

\* C8: with the store not configured, list, create and stats answer 500 (a
\* request FastAPI already rejects answers 422), read and insert nothing, and
\* the liveness and diagnostic endpoints answer 200.
C8_Unconfigured ==
    db = "none" =>
        /\ store = <<>>
        /\ last.reads = 0 /\ last.writes = 0
        /\ last.op = "list" =>
              /\ last.status = (IF InRange(last.limit) \/ last.limit = Null THEN 500 ELSE 422)
              /\ last.docs = <<>>
        /\ last.op = "create" =>
              /\ last.status = (IF ViolatesDataModel(last.payload) THEN 422 ELSE 500)
              /\ last.id = <<>>
        /\ last.op = "stats" => last.status = 500
        /\ last.op \in {"root", "test"} => last.status = 200
        /\ last.op = "test" => last.diag.connection_status = "Not Connected"

C8_Witness == db = "none" /\ last.op = "stats" /\ last.status = 500

\* Serialized record out is stored document d with one id, the string form of
\* _id, no _id, datetimes as ISO-8601 strings and every other field as is.
SerializedFrom(out, d) ==
    /\ DOMAIN out = (DOMAIN d \ {"_id"}) \cup {"id"}
    /\ out["id"] = IdOf(d)
    /\ out["id"].t = "str" /\ out["id"].s # <<>>
    /\ \A k \in DOMAIN d \ {"_id", "id"} :
          IF d[k].t = "date" THEN out[k] = Str(IsoFormat(d[k].n)) ELSE out[k] = d[k]
    /\ \A k \in DOMAIN out : out[k].t \notin {"oid", "date"}

\* C9: every record list returns is a stored document with exactly one id,
\* the string form of its identifier, without the raw identifier field, its
\* temporal values as ISO-8601 strings and its other fields unchanged, also
\* when optional fields are missing.
C9_Serialized ==
    (last.op = "list" /\ last.status = 200) =>
        \A i \in 1..Len(last.docs) :
            \E j \in 1..Len(store) : SerializedFrom(last.docs[i], store[j])

C9_Witness ==
    /\ last.op = "list" /\ last.status = 200
    /\ \E i \in 1..Len(last.docs) :
          /\ Has(last.docs[i], "updated_at")
          /\ ~Has(last.docs[i], "status")
    /\ \E i \in 1..Len(last.docs) : Has(last.docs[i], "created_at")

\* The worker's create has inserted its document.
Inserted(w) ==
    \/ workers[w].pc = "create_return"
    \/ (workers[w].pc = "done" /\ workers[w].req.op = "create"
            /\ workers[w].req.status = 201)

C10_Inv ==
    /\ \A i, j \in 1..Len(store) : i # j => store[i]["_id"] # store[j]["_id"]
    /\ Len(store) = Len(created)
    /\ \A w \in 1..MaxWorkers :
          Inserted(w) =>
              /\ Cardinality({i \in 1..Len(store) :
                    /\ IdOf(store[i]) = Str(workers[w].req.id)
                    /\ \A f \in CompanyFields :
                          store[i][f] = (IF Has(workers[w].req.payload, f)
                                         THEN workers[w].req.payload[f]
                                         ELSE SpecDefault(f))}) = 1
              /\ \A v \in 1..MaxWorkers :
                    (v # w /\ Inserted(v)) => workers[v].req.id # workers[w].req.id

C10_Step ==
    /\ Len(store') \in {Len(store), Len(store) + 1}
    /\ SubSeq(store', 1, Len(store)) = store
    /\ store' # store =>
          \E w \in 1..MaxWorkers :
              workers[w].pc = "create_insert" /\ workers'[w].pc = "create_return"

\* C10: under any interleaving of create, list and stats requests, every
\* successful create persists exactly one record under an id no other record
\* has, no create is lost or duplicated, stored records never change, and
\* only a create's insert changes the collection, by one record.
C10_Concurrent == [](C10_Inv) /\ [][C10_Step]_vars

C10_Witness ==
    \E w, v \in 1..MaxWorkers :
        /\ w # v
        /\ workers[w].pc = "create_return"
        /\ workers[v].pc = "create_return"
====
